---- MODULE Spec2Model ----
(***************************************************************************)
(* Model of the orbital clock (src/orbital_clock/src/main.rs) and of the   *)
(* one-shot twinkle of the TUI variant (src/test/src/main.rs).             *)
(*                                                                         *)
(* Numbers.  The angle is an f64 in the code.  Here it is the exact        *)
(* rational  position / YearQuarterDays  degrees: 365.25 = 1461/4, so      *)
(* days * 360.0 / 365.25 = days * 1440 / 1461.  days * 360.0 is exact in   *)
(* f64, the division is correctly rounded and fmod is exact, so the f64    *)
(* result is an integer exactly when the rational is one, and is otherwise *)
(* at least 1/1461 away from every integer: the cast `as i32` truncates    *)
(* the f64 to the same integer as it truncates the rational.               *)
(*                                                                         *)
(* Text.  A String is the sequence of its chars; a char is a one-character *)
(* string, and the three box-drawing chars are written by code point.      *)
(***************************************************************************)
EXTENDS Integers, Sequences, FiniteSets

\* ---------------------------------------------------------------- bounds
\* The clock is read in steps of 1/TicksPerDay of a day.
TicksPerDay == 2
\* Clock range of the whole-program specification, in days around the epoch.
MaxDaysBefore == 2
MaxDaysAfter == 45
\* Clock range of the start-up specification: days * 1440 mod (360 * 1461)
\* has period 1461 days, so 0 .. 1461 holds every angle a clock at or after
\* the epoch can produce.
CycleDays == 1461
\* The tick counter saturates here.
MaxTick == 2

\* ------------------------------------------------------------- constants
FullTurn == 360
YearQuarterDays == 1461
QuartersPerDay == 4

STAR == "*"
CROSS == "U+253C"
TEE == "U+251C"
DASH == "U+2500"
BLANK == " "
LF == "\n"
CR == "\r"

StarChoices == <<STAR, "+", ".", BLANK>>
CrossChoices == <<CROSS, TEE, DASH, BLANK>>
ChoiceIndexes == 0 .. (Len(StarChoices) - 1)

ErrorLine == <<"Error loading ASCII art">>

NoPath == "None"

\* degree_art_map as SpaceRace::new builds it.
DegreeArtMap ==
  [t \in {0, 20, 40, 60, 90, 120, 140, 160, 180, 200, 220, 240, 270, 300, 320, 340} |->
     CASE t = 0 -> "asciiArt/space010.txt"
       [] t = 20 -> "asciiArt/space2030.txt"
       [] t = 40 -> "asciiArt/space4050.txt"
       [] t = 60 -> "asciiArt/space6070.txt"
       [] t = 90 -> "asciiArt/space90110.txt"
       [] t = 120 -> "asciiArt/space120130.txt"
       [] t = 140 -> "asciiArt/space140150.txt"
       [] t = 160 -> "asciiArt/space160170.txt"
       [] t = 180 -> "asciiArt/space180190.txt"
       [] t = 200 -> "asciiArt/space200210.txt"
       [] t = 220 -> "asciiArt/space220230.txt"
       [] t = 240 -> "asciiArt/space240260.txt"
       [] t = 270 -> "asciiArt/space270290.txt"
       [] t = 300 -> "asciiArt/space300310.txt"
       [] t = 320 -> "asciiArt/space32030.txt"
       [] t = 340 -> "asciiArt/space34050.txt"]

Thresholds == DOMAIN DegreeArtMap
Paths == {DegreeArtMap[t] : t \in Thresholds}

\* ------------------------------------------------------------ arithmetic
\* Integer division and remainder that truncate toward zero (Rust `/`, `%`,
\* fmod, `as i32`); TLA+'s \div and % round toward minus infinity.
TruncDiv(a, b) == IF a >= 0 THEN a \div b ELSE -((-a) \div b)

TruncRem(a, b) == a - b * TruncDiv(a, b)

\* Duration::num_days of a clock reading n (in ticks since the epoch).
NumDays(n) == TruncDiv(n, TicksPerDay)

\* (days_between as f64 * 360.0 / 365.25) % 360.0, in 1/1461 degree.
EarthPositionNoModulo(days) == days * FullTurn * QuartersPerDay

EarthPosition(days) ==
  TruncRem(days * FullTurn * QuartersPerDay, FullTurn * YearQuarterDays)

\* position as i32
AsI32(p) == TruncDiv(p, YearQuarterDays)

\* degree_art_map.range(..x).next_back(): the entry of the greatest key
\* below x, if any.
RangeNextBackInclusive(x) ==
  LET below == {t \in Thresholds : t <= x}
  IN IF below = {} THEN NoPath
     ELSE DegreeArtMap[CHOOSE t \in below : \A u \in below : u <= t]

RangeNextBack(x) ==
  LET below == {t \in Thresholds : t < x}
  IN IF below = {} THEN NoPath
     ELSE DegreeArtMap[CHOOSE t \in below : \A u \in below : u <= t]

\* ------------------------------------------------------------------ text
\* str::lines: split at LF, drop a CR before the LF, no line after a final LF.
StripCr(l) ==
  IF l # <<>> /\ l[Len(l)] = CR THEN SubSeq(l, 1, Len(l) - 1) ELSE l

RECURSIVE LinesFrom(_, _)
LinesFrom(s, cur) ==
  IF s = <<>> THEN (IF cur = <<>> THEN <<>> ELSE <<cur>>)
  ELSE IF Head(s) = LF THEN <<StripCr(cur)>> \o LinesFrom(Tail(s), <<>>)
  ELSE LinesFrom(Tail(s), Append(cur, Head(s)))

Lines(s) == LinesFrom(s, <<>>)

IsMarker(c) == c = STAR \/ c = CROSS

RECURSIVE MarkersInLine(_)
MarkersInLine(line) ==
  IF line = <<>> THEN 0
  ELSE (IF IsMarker(Head(line)) THEN 1 ELSE 0) + MarkersInLine(Tail(line))

RECURSIVE NumMarkers(_)
NumMarkers(frame) ==
  IF frame = <<>> THEN 0
  ELSE MarkersInLine(Head(frame)) + NumMarkers(Tail(frame))

\* What the match arm pushes on new_line for char c when the generator
\* returns k.
PushedSharedPalette(c, k) ==
  IF IsMarker(c) THEN <<StarChoices[k + 1]>> ELSE <<c>>

Pushed(c, k) ==
  CASE c = STAR -> <<StarChoices[k + 1]>>
    [] c = CROSS -> <<CrossChoices[k + 1]>>
    [] OTHER -> <<c>>

\* The inner loop over line.chars(): the new line, and the draws left over.
RECURSIVE TwinkleLine(_, _)
TwinkleLine(line, draws) ==
  IF line = <<>> THEN [out |-> <<>>, rest |-> draws]
  ELSE LET c == Head(line)
           used == IF IsMarker(c) THEN 1 ELSE 0
           k == IF IsMarker(c) THEN Head(draws) ELSE 0
           r == TwinkleLine(Tail(line), SubSeq(draws, used + 1, Len(draws)))
       IN [out |-> Pushed(c, k) \o r.out, rest |-> r.rest]

\* The outer loop over art_lines.iter_mut(): every line replaced by its
\* new_line, the generator consulted once per marker, in reading order.
RECURSIVE TwinkleFrame(_, _)
TwinkleFrame(frame, draws) ==
  IF frame = <<>> THEN <<>>
  ELSE LET r == TwinkleLine(Head(frame), draws)
       IN <<r.out>> \o TwinkleFrame(Tail(frame), r.rest)

DrawsFor(frame) == [1 .. NumMarkers(frame) -> ChoiceIndexes]

\* ----------------------------------------------------------- environment
\* What fs::read_to_string returns for a path.
Readable(text) == [ok |-> TRUE, text |-> text]
Unreadable == [ok |-> FALSE, text |-> <<>>]

ArtA == <<STAR, "A", LF, CROSS>>
ArtB == <<"+", CR, LF, BLANK, LF>>
ArtEmpty == <<>>

AssetStores ==
  {[p \in Paths |-> Readable(ArtA)],
   [p \in Paths |-> Readable(ArtB)],
   [p \in Paths |-> Readable(ArtEmpty)],
   [p \in Paths |-> IF p = DegreeArtMap[0] THEN Unreadable ELSE Readable(ArtA)]}

RunClock == (-(MaxDaysBefore * TicksPerDay)) .. (MaxDaysAfter * TicksPerDay)
CycleClock == (-(MaxDaysBefore * TicksPerDay)) .. (CycleDays * TicksPerDay)

\* ----------------------------------------------------------------- state
VARIABLES
  pc,           \* where main / start_twinkling stands
  asset_store,  \* the asset files, by path
  now,          \* Local::now(), in ticks since the epoch
  position,     \* calculate_earth_position's result, in 1/1461 degree
  file_path,    \* the catalog entry the lookup found, or NoPath
  lookups,      \* lookups in degree_art_map so far
  reads,        \* calls of fs::read_to_string so far
  art_lines,    \* SpaceRace.art_lines
  original_art, \* the local original_art
  draws,        \* what the generator returned during the last transform
  screen,       \* the lines on the display since the last clear
  line_no,      \* the for loop's place in art_lines
  trace,        \* the display and sleep events of the current iteration
  tick          \* completed iterations (saturating)

vars == <<pc, asset_store, now, position, file_path, lookups, reads, art_lines,
          original_art, draws, screen, line_no, trace, tick>>

\* SpaceRace::new, before main reads the clock.
Init ==
  /\ pc = "calculate"
  /\ asset_store \in AssetStores
  /\ now = 0
  /\ position = 0
  /\ file_path = NoPath
  /\ lookups = 0
  /\ reads = 0
  /\ art_lines = <<>>
  /\ original_art = <<>>
  /\ draws = <<>>
  /\ screen = <<>>
  /\ line_no = 1
  /\ trace = <<>>
  /\ tick = 0

\* calculate_earth_position, the clock reading drawn from `clock`.
CalculateEarthPosition(clock) ==
  /\ pc = "calculate"
  /\ \E n \in clock :
       /\ now' = n
       /\ position' = EarthPosition(NumDays(n))
  /\ pc' = "load"
  /\ UNCHANGED <<asset_store, file_path, lookups, reads, art_lines, original_art,
                 draws, screen, line_no, trace, tick>>

Calculate == CalculateEarthPosition(RunClock)

CalculateCycle == CalculateEarthPosition(CycleClock)

\* load_ascii_art_for_current_position
LoadShowsError ==
  /\ pc = "load"
  /\ LET found == RangeNextBack(AsI32(position))
     IN /\ file_path' = found
        /\ lookups' = lookups + 1
        /\ IF found = NoPath
           THEN UNCHANGED <<reads, art_lines, screen>>
           ELSE /\ reads' = reads + 1
                /\ IF asset_store[found].ok
                   THEN /\ art_lines' = Lines(asset_store[found].text)
                        /\ UNCHANGED screen
                   ELSE /\ art_lines' = <<ErrorLine>>
                        /\ screen' = Append(screen, ErrorLine)
  /\ pc' = "start"
  /\ UNCHANGED <<asset_store, now, position, original_art, draws, line_no,
                 trace, tick>>

LoadAsciiArtForCurrentPosition ==
  /\ pc = "load"
  /\ LET found == RangeNextBack(AsI32(position))
     IN /\ file_path' = found
        /\ lookups' = lookups + 1
        /\ IF found = NoPath
           THEN UNCHANGED <<reads, art_lines, screen>>
           ELSE /\ reads' = reads + 1
                /\ IF asset_store[found].ok
                   THEN /\ art_lines' = Lines(asset_store[found].text)
                        /\ UNCHANGED screen
                   ELSE /\ screen' = Append(screen, ErrorLine)
                        /\ UNCHANGED art_lines
  /\ pc' = "start"
  /\ UNCHANGED <<asset_store, now, position, original_art, draws, line_no,
                 trace, tick>>

\* start_twinkling, up to the loop: original_art = self.art_lines.clone().
StartTwinkling ==
  /\ pc = "start"
  /\ original_art' = art_lines
  /\ pc' = "twinkle"
  /\ UNCHANGED <<asset_store, now, position, file_path, lookups, reads, art_lines,
                 draws, screen, line_no, trace, tick>>

\* The transform of one iteration, in place on self.art_lines.
Twinkle ==
  /\ pc = "twinkle"
  /\ \E r \in DrawsFor(art_lines) :
       /\ art_lines' = TwinkleFrame(art_lines, r)
       /\ draws' = r
  /\ trace' = <<"twinkle">>
  /\ pc' = "clear"
  /\ UNCHANGED <<asset_store, now, position, file_path, lookups, reads, original_art,
                 screen, line_no, tick>>

\* print!("\x1B[2J\x1B[1;1H")
ClearScreen ==
  /\ pc = "clear"
  /\ screen' = <<>>
  /\ line_no' = 1
  /\ trace' = Append(trace, "clear")
  /\ pc' = "write"
  /\ UNCHANGED <<asset_store, now, position, file_path, lookups, reads, art_lines,
                 original_art, draws, tick>>

\* One println! of the for loop over &self.art_lines.
PrintLineOriginal ==
  /\ pc = "write"
  /\ line_no <= Len(art_lines)
  /\ screen' = Append(screen, original_art[line_no])
  /\ line_no' = line_no + 1
  /\ trace' = Append(trace, "write")
  /\ UNCHANGED <<pc, asset_store, now, position, file_path, lookups, reads, art_lines,
                 original_art, draws, tick>>

PrintLine ==
  /\ pc = "write"
  /\ line_no <= Len(art_lines)
  /\ screen' = Append(screen, art_lines[line_no])
  /\ line_no' = line_no + 1
  /\ trace' = Append(trace, "write")
  /\ UNCHANGED <<pc, asset_store, now, position, file_path, lookups, reads, art_lines,
                 original_art, draws, tick>>

\* thread::sleep(Duration::from_millis(800)), once the for loop is over.
Sleep ==
  /\ pc = "write"
  /\ line_no > Len(art_lines)
  /\ trace' = Append(trace, "sleep")
  /\ pc' = "restore"
  /\ UNCHANGED <<asset_store, now, position, file_path, lookups, reads, art_lines,
                 original_art, draws, screen, line_no, tick>>

\* self.art_lines = original_art.clone(), and back to the top of the loop.
RestoreSkipped ==
  /\ pc = "restore"
  /\ tick' = IF tick < MaxTick THEN tick + 1 ELSE tick
  /\ pc' = "twinkle"
  /\ UNCHANGED <<asset_store, now, position, file_path, lookups, reads, art_lines,
                 original_art, draws, screen, line_no, trace>>

Restore ==
  /\ pc = "restore"
  /\ art_lines' = original_art
  /\ tick' = IF tick < MaxTick THEN tick + 1 ELSE tick
  /\ pc' = "twinkle"
  /\ UNCHANGED <<asset_store, now, position, file_path, lookups, reads, original_art,
                 draws, screen, line_no, trace>>

\* update_twinkling of the TUI variant: the same transform, called by the
\* display loop any number of times; original_art is cloned and dropped.
UpdateTwinkling ==
  /\ pc = "start"
  /\ original_art' = art_lines
  /\ \E r \in DrawsFor(art_lines) :
       /\ art_lines' = TwinkleFrame(art_lines, r)
       /\ draws' = r
  /\ tick' = IF tick < MaxTick THEN tick + 1 ELSE tick
  /\ UNCHANGED <<pc, asset_store, now, position, file_path, lookups, reads, screen,
                 line_no, trace>>

LoopStep == Twinkle \/ ClearScreen \/ PrintLine \/ Sleep \/ Restore

\* main of the orbital clock.
Next ==
  \/ Calculate
  \/ LoadAsciiArtForCurrentPosition
  \/ StartTwinkling
  \/ Twinkle
  \/ ClearScreen
  \/ PrintLine
  \/ Sleep
  \/ Restore

Spec == Init /\ [][Next]_vars

\* Start-up alone, over a whole cycle of clock readings.
StartupNext == CalculateCycle \/ LoadAsciiArtForCurrentPosition

StartupSpec == Init /\ [][StartupNext]_vars

\* The TUI variant: start-up, then update_twinkling called repeatedly.
TuiNext == Calculate \/ LoadAsciiArtForCurrentPosition \/ UpdateTwinkling

TuiSpec == Init /\ [][TuiNext]_vars

\* ---------------------------------------------------------------- claims
LoopPcs == {"twinkle", "clear", "write", "restore"}

\* The frame the start-up leaves in art_lines, read off the asset store.
LoadedFrame ==
  IF file_path # NoPath /\ asset_store[file_path].ok
  THEN Lines(asset_store[file_path].text)
  ELSE <<>>

\* No entry was found, or the file the entry names could not be read.
LookupMiss == file_path = NoPath
AssetReadError == file_path # NoPath /\ ~asset_store[file_path].ok

\* The integer part of a position in [0, 360).
Floor(p) == p \div YearQuarterDays

InTurn(p) == 0 <= p /\ p < FullTurn * YearQuarterDays

\* file_path is the entry of the greatest threshold below f, or NoPath when
\* no threshold is below f.
ResolvesBelow(f) ==
  /\ (file_path = NoPath) <=> ~(\E t \in Thresholds : t < f)
  /\ \A t \in Thresholds :
       (t < f /\ \A u \in Thresholds : u < f => u <= t)
         => file_path = DegreeArtMap[t]

\* C1: whenever an iteration of the render loop is about to transform,
\* art_lines is the frame original_art took when the loop was entered, and
\* that is still the frame the start-up loaded: no earlier iteration's output
\* is ever transformed again.
C1_TransformReadsOriginal ==
  pc = "twinkle" => art_lines = original_art /\ original_art = LoadedFrame

\* C1 witness: a later iteration about to transform a frame with markers,
\* after an iteration in which every marker drew the blank.
C1_Witness ==
  /\ pc = "twinkle"
  /\ tick >= 1
  /\ NumMarkers(art_lines) = 2
  /\ draws = <<3, 3>>
  /\ screen = <<<<BLANK, "A">>, <<BLANK>>>>

\* C2: for an angle in [0, 360) the lookup finds the entry of the greatest
\* threshold below the angle's integer part, and none when no threshold is
\* below it.
C2_FloorLookup ==
  (pc = "start" /\ InTurn(position)) => ResolvesBelow(Floor(position))

\* C2 witness: the angle is 120 exactly, and the entry found is the one at 90.
C2_Witness ==
  /\ pc = "start"
  /\ position = 120 * YearQuarterDays
  /\ file_path = DegreeArtMap[90]

\* C3: an angle at or above a threshold and below the next one resolves to
\* that threshold's entry, and every angle with a threshold below it gets an
\* entry.
C3_BetweenResolvesToLower ==
  (pc = "start" /\ InTurn(position)) =>
    /\ \A lo \in Thresholds :
         ( /\ lo * YearQuarterDays <= position
           /\ \A hi \in Thresholds :
                hi > lo => position < hi * YearQuarterDays )
           => file_path = DegreeArtMap[lo]
    /\ (\E t \in Thresholds : t * YearQuarterDays < position)
         => file_path # NoPath

\* C4: the transformed frame has the line count and the line lengths of the
\* frame it was made from; a char that is no marker is unchanged, a '*' has
\* become one of '*', '+', '.', ' ' and a U+253C one of U+253C, U+251C,
\* U+2500, ' '.
C4_ShapePreserved ==
  pc \in {"clear", "write", "restore"} =>
    /\ Len(art_lines) = Len(original_art)
    /\ \A i \in 1 .. Len(original_art) :
         /\ Len(art_lines[i]) = Len(original_art[i])
         /\ \A j \in 1 .. Len(original_art[i]) :
              LET old == original_art[i][j]
                  new == art_lines[i][j]
              IN /\ old = "*" => new \in {"*", "+", ".", " "}
                 /\ old = "U+253C" => new \in {"U+253C", "U+251C", "U+2500", " "}
                 /\ old \notin {"*", "U+253C"} => new = old

\* C4 witness: a transform that changed both kinds of marker and kept 'A'.
C4_Witness ==
  /\ pc = "restore"
  /\ original_art = <<<<"*", "A">>, <<"U+253C">>>>
  /\ art_lines = <<<<"+", "A">>, <<"U+2500">>>>

\* C5: whenever update_twinkling has returned, art_lines is the frame the
\* start-up loaded.
C5_InputNotMutated ==
  pc = "start" => art_lines = LoadedFrame

\* C6: after a start-up that found no entry or could not read the file, the
\* frame stays empty, the loop is entered and never stops, the catalog was
\* consulted once and the file read at most once, and from the clear of an
\* iteration to its end the display is empty.
C6_DegradedState ==
  (pc \notin {"calculate", "load"} /\ (LookupMiss \/ AssetReadError)) =>
    /\ art_lines = <<>>
    /\ original_art = <<>>
    /\ lookups = 1
    /\ reads = (IF LookupMiss THEN 0 ELSE 1)
    /\ pc = "start" => ENABLED StartTwinkling
    /\ pc \in LoopPcs => ENABLED LoopStep
    /\ pc \in {"write", "restore"} =>
         /\ screen = <<>>
         /\ \E i \in 1 .. Len(trace) : trace[i] = "clear"
         /\ \A i \in 1 .. Len(trace) : trace[i] # "write"

\* C6 witness: the file was unreadable and a second iteration has drawn its
\* empty frame.
C6_Witness ==
  /\ AssetReadError
  /\ pc = "restore"
  /\ tick >= 1
  /\ screen = <<>>

\* C7: when the start-up ends with no entry found or with an unreadable file,
\* a report is on the display before the loop starts.
C7_FailuresReported ==
  (pc = "start" /\ (LookupMiss \/ AssetReadError)) => screen # <<>>

\* C8: the angle lies in [0, 360) and is days * 360 / 365.25 reduced to the
\* non-negative remainder modulo 360, for every clock reading.
C8_AngleInRange ==
  pc = "load" =>
    /\ InTurn(position)
    /\ position = (NumDays(now) * FullTurn * QuartersPerDay)
                    % (FullTurn * YearQuarterDays)

\* C9: with d >= 0 whole days elapsed since the epoch, the start-up resolves the
\* entry of the greatest threshold below the integer part of
\* (d * 360 / 365.25) mod 360; for d = 20 that integer part is 19 and the
\* entry is asciiArt/space010.txt.
C9_EndToEnd ==
  (pc = "start" /\ now >= 0) =>
    LET d == now \div TicksPerDay
        f == ((d * 1440) \div 1461) % 360
    IN /\ ResolvesBelow(f)
       /\ d = 20 => (f = 19 /\ file_path = "asciiArt/space010.txt")

\* C9 witness: the clock stands 20 days after the epoch and the start-up has
\* resolved the entry at 0.
C9_Witness ==
  /\ pc = "start"
  /\ NumDays(now) = 20
  /\ position = 20 * 1440
  /\ file_path = "asciiArt/space010.txt"

\* The events of one whole iteration over a frame of n lines.
FullTrace(n) ==
  <<"twinkle", "clear">> \o [i \in 1 .. n |-> "write"] \o <<"sleep">>

IsPrefix(s, t) == Len(s) <= Len(t) /\ s = SubSeq(t, 1, Len(s))

\* C10: the loop never stops; the events of an iteration are transform,
\* clear, one write per line, sleep, in that order; an iteration starts only
\* after the previous one slept; and the lines on the display after the clear
\* are, in order, the lines of this iteration's transform of the original.
C10_RenderOrder ==
  pc \in LoopPcs =>
    LET whole == FullTrace(Len(original_art))
        written == Len(trace) - 2
    IN /\ ENABLED LoopStep
       /\ IsPrefix(trace, whole)
       /\ pc = "twinkle" => IF tick = 0 THEN trace = <<>> ELSE trace = whole
       /\ pc = "clear" => trace = <<"twinkle">>
       /\ pc = "write" => Len(trace) >= 2 /\ trace # whole
       /\ pc = "restore" => trace = whole
       /\ (Len(trace) >= 2 /\ trace # whole) =>
            screen = SubSeq(TwinkleFrame(original_art, draws), 1, written)
       /\ trace = whole => screen = TwinkleFrame(original_art, draws)

\* C10 witness: a second iteration has written both lines of a changed frame
\* and slept.
C10_Witness ==
  /\ pc = "restore"
  /\ tick >= 1
  /\ trace = <<"twinkle", "clear", "write", "write", "sleep">>
  /\ screen = <<<<".", "A">>, <<"U+251C">>>>

====
